---- MODULE Spec2Model ----
(***************************************************************************)
(* Model of src/static/js/main.js: the page interaction controller of the  *)
(* Zenvexa site (menu toggle, form validators, password strength bar,      *)
(* clipboard copy, alert presenter, focus-clear).                          *)
(*                                                                         *)
(* Strings are sequences of one-character strings, so that trim(), length  *)
(* and the regular expressions are computed character by character.        *)
(* The markup that main.js binds to is the one its selectors name: every   *)
(* field sits in its own .form-group with an .error-message element, the   *)
(* menu button reads the open symbol and no alert is in the page at load.  *)
(***************************************************************************)
EXTENDS Integers, Sequences, FiniteSets, TLC

\* ------------------------------------------------------------------ bounds
\* showAlert calls in one run
MaxAlerts == 2
\* copy clicks in one run
MaxCopies == 2
\* length of the e-mail strings drawn in SpecEmail
MaxEmailLen == 5
\* free characters at the head of a drawn password
MaxHead == 3
\* length of the run of one character that ends a drawn password
MaxPad == 7

\* ------------------------------------------------------- program constants
\* validatePassword: password.length >= 8 ; updatePasswordStrength: length >= 8
MinPasswordLen == 8
\* contact submit: message.value.trim().length < 10
MinMessageLen == 10

\* ------------------------------------------------------------------ strings
Rep(c, n) == [i \in 1..n |-> c]

\* the white space of the modelled alphabet (\s of the regular expressions)
IsSpace(c) == c = " "

RECURSIVE TrimStart(_)
TrimStart(s) == IF s # <<>> /\ IsSpace(Head(s)) THEN TrimStart(Tail(s)) ELSE s

RECURSIVE TrimEnd(_)
TrimEnd(s) ==
    IF s # <<>> /\ IsSpace(s[Len(s)]) THEN TrimEnd(SubSeq(s, 1, Len(s) - 1)) ELSE s

\* String.prototype.trim
Trim(s) == TrimEnd(TrimStart(s))

IsLower(c) == c \in {"a", "m", "p"}
IsUpper(c) == c \in {"A", "J", "G"}
IsDigit(c) == c \in {"1"}

\* /[a-z]/, /[A-Z]/, /[0-9]/, /[^a-zA-Z0-9]/ applied with String.match
HasLower(s) == \E i \in 1..Len(s) : IsLower(s[i])
HasUpper(s) == \E i \in 1..Len(s) : IsUpper(s[i])
HasDigit(s) == \E i \in 1..Len(s) : IsDigit(s[i])
HasOther(s) == \E i \in 1..Len(s) : ~IsLower(s[i]) /\ ~IsUpper(s[i]) /\ ~IsDigit(s[i])

\* [^\s@]
NotSpaceNorAt(c) == ~IsSpace(c) /\ c # "@"

\* a validateEmail whose pattern lost the \. and the part after it
validateEmail_noDot(email) ==
    \E i \in 1..Len(email) :
        /\ email[i] = "@"
        /\ 1 < i
        /\ i < Len(email)
        /\ \A k \in (1..Len(email)) \ {i} : NotSpaceNorAt(email[k])

\* /^[^\s@]+@[^\s@]+\.[^\s@]+$/.test(email): i is the place of the "@",
\* j the place of the "." that the pattern's \. matches
validateEmail(email) ==
    \E i \in 1..Len(email) : \E j \in 1..Len(email) :
        /\ email[i] = "@"
        /\ email[j] = "."
        /\ 1 < i
        /\ i + 1 < j
        /\ j < Len(email)
        /\ \A k \in (1..Len(email)) \ {i} : NotSpaceNorAt(email[k])

\* a validatePassword that is off by one and lets 7 characters through
validatePassword_offByOne(password) == Len(password) >= MinPasswordLen - 1

validatePassword(password) == Len(password) >= MinPasswordLen

\* ------------------------------------------------------------------- fields
Pages == {"contact", "login", "signup", "dashboard"}

ContactFields == {"name", "email", "subject", "message"}
LoginFields == {"login-email", "login-password"}
SignupFields == {"signup-name", "signup-email", "signup-password", "signup-confirm"}
Fields == ContactFields \cup LoginFields \cup SignupFields

\* the one <select>; every other field is an <input> or a <textarea>
SelectFields == {"subject"}

FieldsOf(p) ==
    CASE p = "contact" -> ContactFields
      [] p = "login" -> LoginFields
      [] p = "signup" -> SignupFields
      [] OTHER -> {}

VARIABLES
    page,        \* the page the script was loaded in
    secure,      \* navigator.clipboard && window.isSecureContext
    value,       \* field -> its value
    cls,         \* field -> the validation classes among "error", "success"
    errText,     \* field -> textContent of its .error-message
    errShow,     \* field -> its .error-message carries "show"
    created,     \* the alerts showAlert has created, in order: [type, message]
    alerts,      \* the created alerts that are in the document
    timers,      \* the created alerts whose 5000 ms timer is pending
    navActive,   \* .nav-links carries "active"
    glyph,       \* textContent of the .mobile-menu button
    btnInNav,    \* the .mobile-menu button is inside the <nav> element
    copies,      \* the copy clicks, in order
    btnLabel,    \* textContent of the key item's Copy button
    labelTimers, \* originalText of each pending 2000 ms timer, oldest first
    textAreas,   \* textareas fallbackCopy has left in document.body
    strengthShow, \* #password-strength carries "show"
    strengthBar  \* the strength-* classes of #password-strength-bar

formVars == <<value, cls, errText, errShow>>
alertVars == <<created, alerts, timers>>
menuVars == <<navActive, glyph, btnInNav>>
copyVars == <<copies, btnLabel, labelTimers, textAreas>>
strengthVars == <<strengthShow, strengthBar>>
vars == <<page, secure, formVars, alertVars, menuVars, copyVars, strengthVars>>

\* ------------------------------------------------- validation primitives
\* The validation state of the fields, as the primitives read and write it.
Dom == [cls |-> cls, errText |-> errText, errShow |-> errShow]

showError(d, input, message) ==
    [d EXCEPT !.cls[input] = (@ \cup {"error"}) \ {"success"},
              !.errText[input] = message,
              !.errShow[input] = TRUE]

\* a showSuccess that forgets classList.remove('error')
showSuccess_keepError(d, input) ==
    [d EXCEPT !.cls[input] = @ \cup {"success"},
              !.errShow[input] = FALSE]

showSuccess(d, input) ==
    [d EXCEPT !.cls[input] = (@ \ {"error"}) \cup {"success"},
              !.errShow[input] = FALSE]

clearValidation(d, input) ==
    [d EXCEPT !.cls[input] = @ \ {"error", "success"},
              !.errShow[input] = FALSE]

RECURSIVE clearAll(_, _)
\* forEach(input => clearValidation(input)) over a set of fields
clearAll(d, fs) ==
    IF fs = {} THEN d
    ELSE LET f == CHOOSE x \in fs : TRUE
         IN clearAll(clearValidation(d, f), fs \ {f})

\* ------------------------------------------------------------- navigation
\* textContent of the menu button: U+2630 (trigram) closed, U+2715 (cross) open
OpenSymbol == "U+2630"
CloseSymbol == "U+2715"

MenuState == [active |-> navActive, text |-> glyph]

\* mobileMenuBtn click: classList.toggle('active'), then the glyph follows it
menuToggle(m) ==
    [active |-> ~m.active, text |-> IF ~m.active THEN CloseSymbol ELSE OpenSymbol]

\* a close handler that forgets to restore the glyph
menuClose_keepGlyph(m) == [m EXCEPT !.active = FALSE]

\* the body of the outside-click handler and of the link handler
menuClose(m) == [active |-> FALSE, text |-> OpenSymbol]

\* the click listener of document: closes unless the target is inside <nav>
documentClick(m, targetInNav) == IF targetInNav THEN m ELSE menuClose(m)

SetMenu(m) ==
    /\ navActive' = m.active
    /\ glyph' = m.text
    /\ UNCHANGED btnInNav

\* click on .mobile-menu: its own listener, then the event bubbles to document
MenuButtonClick ==
    /\ SetMenu(documentClick(menuToggle(MenuState), btnInNav))
    /\ UNCHANGED <<page, secure, formVars, alertVars, copyVars, strengthVars>>

\* click on a link of .nav-links: its own listener, then document's
NavLinkClick ==
    /\ \E linkInNav \in BOOLEAN :
           SetMenu(documentClick(menuClose(MenuState), linkInNav))
    /\ UNCHANGED <<page, secure, formVars, alertVars, copyVars, strengthVars>>

\* click on an element outside <nav> that has no listener of its own
OutsideClick ==
    /\ SetMenu(documentClick(MenuState, FALSE))
    /\ UNCHANGED <<page, secure, formVars, alertVars, copyVars, strengthVars>>

\* ----------------------------------------------------------- alert system
AlertState == [created |-> created, alerts |-> alerts, timers |-> timers]

\* a showAlert that does not remove the existing alerts
showAlert_noEvict(a, type, message) ==
    LET id == Len(a.created) + 1
    IN [created |-> Append(a.created, [type |-> type, message |-> message]),
        alerts |-> a.alerts \cup {id},
        timers |-> a.timers \cup {id}]

\* querySelectorAll('.custom-alert').forEach(remove); appendChild(alert);
\* setTimeout(() => alert.remove(), 5000)
showAlert(a, type, message) ==
    LET id == Len(a.created) + 1
    IN [created |-> Append(a.created, [type |-> type, message |-> message]),
        alerts |-> {id},
        timers |-> a.timers \cup {id}]

SetAlerts(a) ==
    /\ created' = a.created
    /\ alerts' = a.alerts
    /\ timers' = a.timers

SetDom(d) ==
    /\ cls' = d.cls
    /\ errText' = d.errText
    /\ errShow' = d.errShow

\* closeBtn click: alert.remove(); the button is in the page while its alert
\* is. The click bubbles to document, whose listener closes the menu.
AlertClose(id) ==
    /\ id \in alerts
    /\ alerts' = alerts \ {id}
    /\ UNCHANGED <<created, timers>>
    /\ SetMenu(documentClick(MenuState, FALSE))
    /\ UNCHANGED <<page, secure, formVars, copyVars, strengthVars>>

\* a timer callback that removes whatever alert is displayed when it fires
AlertTimeout_removeDisplayed(id) ==
    /\ id \in timers
    /\ \A other \in timers : id <= other
    /\ alerts' = {}
    /\ timers' = timers \ {id}
    /\ UNCHANGED created
    /\ UNCHANGED <<page, secure, formVars, menuVars, copyVars, strengthVars>>

\* the 5000 ms timer of alert id fires: alert.remove(). Equal delays fire in
\* the order they were set.
AlertTimeout(id) ==
    /\ id \in timers
    /\ \A other \in timers : id <= other
    /\ alerts' = alerts \ {id}
    /\ timers' = timers \ {id}
    /\ UNCHANGED created
    /\ UNCHANGED <<page, secure, formVars, menuVars, copyVars, strengthVars>>

\* ----------------------------------------------------------- contact form
\* HTMLFormElement.reset(): the form's fields go back to their default value,
\* the empty string
resetForm(v, fs) == [f \in Fields |-> IF f \in fs THEN <<>> ELSE v[f]]

\* name.value.trim() === ''
nameFails(v) == Trim(v["name"]) = <<>>

emailRequired(v, f) == Trim(v[f]) = <<>>

\* the two failing branches of the e-mail checks of the three forms
emailFails(v, f) == emailRequired(v, f) \/ ~validateEmail(v[f])

subjectFails(v) == v["subject"] = <<>>

messageRequired(v) == Trim(v["message"]) = <<>>

\* a message check that measures the untrimmed value
messageShort_noTrim(v) == Len(v["message"]) < MinMessageLen

\* message.value.trim().length < 10
messageShort(v) == Len(Trim(v["message"])) < MinMessageLen

\* The validation part of the contact submit handler, field after field.
contactValidate(d, v) ==
    LET d1 == IF nameFails(v) THEN showError(d, "name", "Name is required")
              ELSE showSuccess(d, "name")
        d2 == IF emailRequired(v, "email") THEN showError(d1, "email", "Email is required")
              ELSE IF ~validateEmail(v["email"])
                   THEN showError(d1, "email", "Please enter a valid email")
                   ELSE showSuccess(d1, "email")
        d3 == IF subjectFails(v) THEN showError(d2, "subject", "Please select a subject")
              ELSE showSuccess(d2, "subject")
        d4 == IF messageRequired(v) THEN showError(d3, "message", "Message is required")
              ELSE IF messageShort(v)
                   THEN showError(d3, "message", "Message must be at least 10 characters")
                   ELSE showSuccess(d3, "message")
    IN [dom |-> d4,
        isValid |-> ~nameFails(v) /\ ~emailFails(v, "email") /\ ~subjectFails(v)
                    /\ ~messageRequired(v) /\ ~messageShort(v)]

ContactThanks == "Thank you! Your message has been sent successfully."

\* a valid branch of the contact handler that leaves the select as it is
contactCleared_noSelect(d) == clearAll(d, ContactFields \ SelectFields)

\* contactForm.querySelectorAll('input, textarea, select').forEach(clearValidation)
contactCleared(d) == clearAll(d, ContactFields)

\* submit of #contactForm
ContactSubmit ==
    /\ page = "contact"
    /\ LET r == contactValidate(Dom, value)
       IN IF r.isValid
          THEN /\ Len(created) < MaxAlerts
               /\ SetAlerts(showAlert(AlertState, "success", ContactThanks))
               /\ value' = resetForm(value, ContactFields)
               /\ SetDom(contactCleared(r.dom))
          ELSE /\ SetDom(r.dom)
               /\ UNCHANGED <<value, alertVars>>
    /\ UNCHANGED <<page, secure, menuVars, copyVars, strengthVars>>

\* ------------------------------------------------------------- login form
loginValidate(d, v) ==
    LET d1 == IF emailRequired(v, "login-email")
              THEN showError(d, "login-email", "Email is required")
              ELSE IF ~validateEmail(v["login-email"])
                   THEN showError(d, "login-email", "Please enter a valid email")
                   ELSE showSuccess(d, "login-email")
        d2 == IF Trim(v["login-password"]) = <<>>
              THEN showError(d1, "login-password", "Password is required")
              ELSE showSuccess(d1, "login-password")
    IN [dom |-> d2,
        isValid |-> ~emailFails(v, "login-email") /\ Trim(v["login-password"]) # <<>>]

LoginNote == "Login functionality would be handled by your backend."

\* submit of #login-form
LoginSubmit ==
    /\ page = "login"
    /\ LET r == loginValidate(Dom, value)
       IN /\ SetDom(r.dom)
          /\ IF r.isValid
             THEN /\ Len(created) < MaxAlerts
                  /\ SetAlerts(showAlert(AlertState, "info", LoginNote))
             ELSE UNCHANGED alertVars
    /\ UNCHANGED <<page, secure, value, menuVars, copyVars, strengthVars>>

\* ------------------------------------------------------------ signup form
passwordRequired(v) == Trim(v["signup-password"]) = <<>>

passwordShort(v) == ~validatePassword(v["signup-password"])

confirmRequired(v) == Trim(v["signup-confirm"]) = <<>>

confirmDiffers(v) == v["signup-password"] # v["signup-confirm"]

signupValidate(d, v) ==
    LET d1 == IF Trim(v["signup-name"]) = <<>>
              THEN showError(d, "signup-name", "Name is required")
              ELSE showSuccess(d, "signup-name")
        d2 == IF emailRequired(v, "signup-email")
              THEN showError(d1, "signup-email", "Email is required")
              ELSE IF ~validateEmail(v["signup-email"])
                   THEN showError(d1, "signup-email", "Please enter a valid email")
                   ELSE showSuccess(d1, "signup-email")
        d3 == IF passwordRequired(v)
              THEN showError(d2, "signup-password", "Password is required")
              ELSE IF passwordShort(v)
                   THEN showError(d2, "signup-password",
                                  "Password must be at least 8 characters")
                   ELSE showSuccess(d2, "signup-password")
        d4 == IF confirmRequired(v)
              THEN showError(d3, "signup-confirm", "Please confirm your password")
              ELSE IF confirmDiffers(v)
                   THEN showError(d3, "signup-confirm", "Passwords do not match")
                   ELSE showSuccess(d3, "signup-confirm")
    IN [dom |-> d4,
        isValid |-> /\ Trim(v["signup-name"]) # <<>>
                    /\ ~emailFails(v, "signup-email")
                    /\ ~passwordRequired(v) /\ ~passwordShort(v)
                    /\ ~confirmRequired(v) /\ ~confirmDiffers(v)]

SignupDone == "Account created successfully!"

\* submit of #signup-form
SignupSubmit ==
    /\ page = "signup"
    /\ LET r == signupValidate(Dom, value)
       IN /\ SetDom(r.dom)
          /\ IF r.isValid
             THEN /\ Len(created) < MaxAlerts
                  /\ SetAlerts(showAlert(AlertState, "success", SignupDone))
                  /\ value' = resetForm(value, SignupFields)
             ELSE UNCHANGED <<value, alertVars>>
    /\ UNCHANGED <<page, secure, menuVars, copyVars, strengthVars>>

\* ------------------------------------------------------ password strength
StrengthState == [show |-> strengthShow, bar |-> strengthBar]

Bit(b) == IF b THEN 1 ELSE 0

\* a score that counts a letter of either case as the mixed-case check
strength_anyCase(password) ==
    Bit(Len(password) >= MinPasswordLen)
    + Bit(HasLower(password) \/ HasUpper(password))
    + Bit(HasDigit(password))
    + Bit(HasOther(password))

\* the local variable strength of updatePasswordStrength
strength(password) ==
    Bit(Len(password) >= MinPasswordLen)
    + Bit(HasLower(password) /\ HasUpper(password))
    + Bit(HasDigit(password))
    + Bit(HasOther(password))

\* the class added to the bar for a score
strengthClass(n) ==
    IF n <= 1 THEN "strength-weak"
    ELSE IF n <= 3 THEN "strength-medium"
    ELSE "strength-strong"

updatePasswordStrength(s, password) ==
    IF Len(password) = 0
    THEN [s EXCEPT !.show = FALSE]
    ELSE [show |-> TRUE, bar |-> {strengthClass(strength(password))}]

SetStrength(s) ==
    /\ strengthShow' = s.show
    /\ strengthBar' = s.bar

\* -------------------------------------------------------------- clipboard
\* what document.execCommand('copy') does: returns true, returns false (the
\* command is unsupported or disabled), or throws
ExecResults == {"true", "false", "throws"}

CopiedToast == "Copied to clipboard!"
FailedToast == "Failed to copy"

\* The part of the page one copy click works on: the alerts, the textareas
\* in document.body, and the click's own record.
CopyState(click) == [alert |-> AlertState, textAreas |-> textAreas, click |-> click]

NewClick(target) ==
    [target |-> target, write |-> "none", fallbacks |-> 0, exec |-> "none",
     toast |-> "none"]

\* fallbackCopy(text): the return value of execCommand is not read
fallbackCopy(st, result) ==
    LET appended == [st EXCEPT !.textAreas = @ + 1,
                               !.click.fallbacks = @ + 1,
                               !.click.exec = result]
        shown == IF result = "throws"
                 THEN [appended EXCEPT !.alert = showAlert(@, "error", FailedToast),
                                       !.click.toast = "error"]
                 ELSE [appended EXCEPT !.alert = showAlert(@, "success", CopiedToast),
                                       !.click.toast = "success"]
    IN [shown EXCEPT !.textAreas = @ - 1]

\* a data-copy success continuation that also runs the fallback
dataFulfilled_alsoFallback(st) ==
    fallbackCopy([st EXCEPT !.click.write = "fulfilled"], "true")

\* .then(() => showAlert('success', 'Copied to clipboard!'))
dataFulfilled(st) ==
    [st EXCEPT !.alert = showAlert(@, "success", CopiedToast),
               !.click.toast = "success",
               !.click.write = "fulfilled"]

\* .catch(() => fallbackCopy(text))
writeRejected(st, result) == fallbackCopy([st EXCEPT !.click.write = "rejected"], result)

SetCopy(st, cs) ==
    /\ SetAlerts(st.alert)
    /\ textAreas' = st.textAreas
    /\ copies' = cs

\* click on a [data-copy] element, or on a key item's Copy button
\* (copyToClipboard): both start the write when the clipboard API is there
\* and the context is secure, and run fallbackCopy at once otherwise. The
\* click bubbles to document, whose listener closes the menu.
CopyClick(target) ==
    /\ page = "dashboard"
    /\ Len(copies) < MaxCopies
    /\ IF secure
       THEN /\ copies' = Append(copies, [NewClick(target) EXCEPT !.write = "pending"])
            /\ UNCHANGED <<alertVars, textAreas>>
       ELSE /\ Len(created) < MaxAlerts
            /\ \E result \in ExecResults :
                   LET st == fallbackCopy(CopyState(NewClick(target)), result)
                   IN SetCopy(st, Append(copies, st.click))
    /\ SetMenu(documentClick(MenuState, FALSE))
    /\ UNCHANGED <<page, secure, formVars, btnLabel, labelTimers, strengthVars>>

\* navigator.clipboard.writeText resolves for click i
WriteFulfilled(i) ==
    /\ i \in 1..Len(copies)
    /\ copies[i].write = "pending"
    /\ IF copies[i].target = "data"
       THEN /\ Len(created) < MaxAlerts
            /\ LET st == dataFulfilled(CopyState(copies[i]))
               IN SetCopy(st, [copies EXCEPT ![i] = st.click])
            /\ UNCHANGED <<btnLabel, labelTimers>>
       ELSE \* const originalText = button.textContent; setTimeout(..., 2000)
            /\ labelTimers' = Append(labelTimers, btnLabel)
            /\ btnLabel' = "Copied!"
            /\ copies' = [copies EXCEPT ![i].write = "fulfilled"]
            /\ UNCHANGED <<alertVars, textAreas>>
    /\ UNCHANGED <<page, secure, formVars, menuVars, strengthVars>>

\* navigator.clipboard.writeText rejects for click i
WriteRejected(i) ==
    /\ i \in 1..Len(copies)
    /\ copies[i].write = "pending"
    /\ Len(created) < MaxAlerts
    /\ \E result \in ExecResults :
           LET st == writeRejected(CopyState(copies[i]), result)
           IN SetCopy(st, [copies EXCEPT ![i] = st.click])
    /\ UNCHANGED <<page, secure, formVars, menuVars, btnLabel, labelTimers, strengthVars>>

\* the oldest 2000 ms timer fires: button.textContent = originalText
LabelTimeout ==
    /\ labelTimers # <<>>
    /\ btnLabel' = Head(labelTimers)
    /\ labelTimers' = Tail(labelTimers)
    /\ UNCHANGED <<copies, textAreas>>
    /\ UNCHANGED <<page, secure, formVars, alertVars, menuVars, strengthVars>>

\* ------------------------------------------------------- input and focus
\* an input event on field f that leaves it with value v, the value it had
\* included; the listener of #signup-password recomputes the strength bar
Input(f, v) ==
    /\ f \in FieldsOf(page)
    /\ value' = [value EXCEPT ![f] = v]
    /\ IF f = "signup-password"
       THEN SetStrength(updatePasswordStrength(StrengthState, v))
       ELSE UNCHANGED strengthVars
    /\ UNCHANGED <<cls, errText, errShow>>
    /\ UNCHANGED <<page, secure, alertVars, menuVars, copyVars>>

\* focus on an input or a textarea: clearValidation(input)
Focus(f) ==
    /\ f \in FieldsOf(page) \ SelectFields
    /\ SetDom(clearValidation(Dom, f))
    /\ UNCHANGED value
    /\ UNCHANGED <<page, secure, alertVars, menuVars, copyVars, strengthVars>>

\* ------------------------------------------------------------ input sets
Blank == <<" ">>
EmailNoDot == <<"a", "@", "a">>
EmailGood == <<"a", "@", "a", ".", "a">>

InputValues(f) ==
    CASE f \in {"name", "signup-name"} -> {<<>>, Blank, <<"J">>}
      [] f \in {"email", "login-email", "signup-email"} -> {<<>>, EmailNoDot, EmailGood}
      [] f = "subject" -> {<<>>, <<"G">>}
      [] f = "message" -> {<<>>, Blank \o Rep("m", MinMessageLen - 1),
                           Rep("m", MinMessageLen)}
      [] f = "login-password" -> {<<>>, Blank, <<"p">>}
      [] f \in {"signup-password", "signup-confirm"} ->
            {<<>>, Rep("p", MinPasswordLen - 1), Rep("p", MinPasswordLen)}

StrongPassword == <<"A", "1", "!">> \o Rep("a", MinPasswordLen - 3)

\* a filling every check of the three forms accepts
AllValid ==
    [f \in Fields |->
        CASE f \in {"name", "signup-name"} -> <<"J">>
          [] f \in {"email", "login-email", "signup-email"} -> EmailGood
          [] f = "subject" -> <<"G">>
          [] f = "message" -> Rep("m", MinMessageLen)
          [] f = "login-password" -> <<"p">>
          [] f \in {"signup-password", "signup-confirm"} -> StrongPassword]

\* what a visitor correcting a form leaves in field f: nothing, or the value
\* the checks of the form accept
Corrections(f) == {<<>>, AllValid[f]}

\* --------------------------------------------------------- specifications
\* the state after init() in a freshly loaded page
Loaded(p, sec, inNav, v) ==
    /\ page = p
    /\ secure = sec
    /\ value = v
    /\ cls = [f \in Fields |-> {}]
    /\ errText = [f \in Fields |-> ""]
    /\ errShow = [f \in Fields |-> FALSE]
    /\ created = <<>>
    /\ alerts = {}
    /\ timers = {}
    /\ navActive = FALSE
    /\ glyph = OpenSymbol
    /\ btnInNav = inNav
    /\ copies = <<>>
    /\ btnLabel = "Copy"
    /\ labelTimers = <<>>
    /\ textAreas = 0
    /\ strengthShow = FALSE
    /\ strengthBar = {}

Empty == [f \in Fields |-> <<>>]

AlertSteps ==
    \/ \E id \in 1..MaxAlerts : AlertClose(id)
    \/ \E id \in 1..MaxAlerts : AlertTimeout(id)

CopySteps ==
    \/ \E target \in {"data", "key"} : CopyClick(target)
    \/ \E i \in 1..MaxCopies : WriteFulfilled(i)
    \/ \E i \in 1..MaxCopies : WriteRejected(i)
    \/ LabelTimeout

\* Spec: a page from load, its form empty (or the dashboard with its copy
\* buttons): the fields edited and focused between the submits, the copies
\* and the life of the alerts
Init ==
    \/ \E p \in {"contact", "login", "signup"} : Loaded(p, TRUE, TRUE, Empty)
    \/ \E sec \in BOOLEAN : Loaded("dashboard", sec, TRUE, Empty)

Next ==
    \/ ContactSubmit
    \/ LoginSubmit
    \/ SignupSubmit
    \/ \E f \in Fields : \E v \in Corrections(f) : Input(f, v)
    \/ \E f \in Fields : Focus(f)
    \/ CopySteps
    \/ AlertSteps

Spec == Init /\ [][Next]_vars

\* SpecContact: the contact page from load, edited and submitted
InitContact == Loaded("contact", TRUE, TRUE, Empty)

NextContact ==
    \/ ContactSubmit
    \/ \E f \in ContactFields : \E v \in InputValues(f) : Input(f, v)
    \/ \E f \in ContactFields : Focus(f)

SpecContact == InitContact /\ [][NextContact]_vars

\* SpecMenu: the dashboard with its navigation: menu clicks between the
\* copies and the alerts
InitMenu == \E sec \in BOOLEAN : \E inNav \in BOOLEAN : Loaded("dashboard", sec, inNav, Empty)

NextMenu ==
    \/ MenuButtonClick
    \/ NavLinkClick
    \/ OutsideClick
    \/ CopySteps
    \/ AlertSteps

SpecMenu == InitMenu /\ [][NextMenu]_vars

\* the strings over chars of length at most n
Strings(chars, n) == UNION {[1..k -> chars] : k \in 0..n}

\* the strings made of a free head and a run of one character
RunStrings(chars) ==
    {h \o Rep(c, k) : h \in Strings(chars, MaxHead), c \in chars, k \in 0..MaxPad}

EmailField(p) ==
    CASE p = "contact" -> "email"
      [] p = "login" -> "login-email"
      [] p = "signup" -> "signup-email"

OnPage(p, v) == [f \in Fields |-> IF f \in FieldsOf(p) THEN v[f] ELSE <<>>]

\* SpecEmail: each form with an e-mail drawn from every string over four
\* kinds of character, the other fields valid, submitted again and again
EmailChars == {"a", "@", ".", " "}

InitEmail ==
    \E p \in {"contact", "login", "signup"} :
        \E e \in Strings(EmailChars, MaxEmailLen) :
            Loaded(p, TRUE, TRUE, [OnPage(p, AllValid) EXCEPT ![EmailField(p)] = e])

NextEmail ==
    \/ ContactSubmit
    \/ LoginSubmit
    \/ SignupSubmit
    \/ AlertSteps

SpecEmail == InitEmail /\ [][NextEmail]_vars

\* SpecSignup: the signup form with a drawn password, repeated in the confirm
\* field, the other fields valid
SignupChars == {"a", "A", " "}

InitSignup ==
    \E pw \in RunStrings(SignupChars) :
        Loaded("signup", TRUE, TRUE,
               [OnPage("signup", AllValid) EXCEPT !["signup-password"] = pw,
                                                  !["signup-confirm"] = pw])

NextSignup ==
    \/ SignupSubmit
    \/ \E f \in SignupFields : Focus(f)
    \/ AlertSteps

SpecSignup == InitSignup /\ [][NextSignup]_vars

\* SpecStrength: the signup password typed key by key, or pasted, on a page
\* loaded with the field empty or already filled (no input event fired yet, so
\* the indicator is hidden)
StrengthChars == {"a", "A", "1", "!"}

Examples ==
    {Rep("a", 8),
     <<"A">> \o Rep("a", 7) \o <<"1">>,
     <<"A">> \o Rep("a", 7) \o <<"1", "!">>}

\* s is a head of at most MaxHead characters and a run of at most MaxPad
InRuns(s) ==
    \E h \in 0..MaxHead :
        /\ h <= Len(s)
        /\ Len(s) - h <= MaxPad
        /\ \A i \in (h + 1)..Len(s) : s[i] = s[Len(s)]

\* one key: a character appended, the last one deleted, or one overwritten
Edits(s) ==
    {Append(s, c) : c \in StrengthChars}
    \cup {SubSeq(s, 1, Len(s) - 1) : x \in {y \in {1} : s # <<>>}}
    \cup {[s EXCEPT ![i] = c] : i \in 1..Len(s), c \in StrengthChars}

PasswordKey ==
    \E v \in Edits(value["signup-password"]) :
        /\ InRuns(v) \/ v \in Examples
        /\ Input("signup-password", v)

PasswordPaste == \E v \in Examples : Input("signup-password", v)

InitStrength ==
    \E pw \in {<<>>} \cup Examples :
        Loaded("signup", TRUE, TRUE,
               [OnPage("signup", AllValid) EXCEPT !["signup-password"] = pw])

NextStrength ==
    \/ PasswordKey
    \/ PasswordPaste

SpecStrength == InitStrength /\ [][NextStrength]_vars

\* ------------------------------------------------------------------ claims

\* C1: at most one alert element is in the page, and it is the one created
\* last: every showAlert removes the alerts displayed before it.
C1_AtMostOneAlert ==
    /\ Cardinality(alerts) <= 1
    /\ alerts \subseteq {Len(created)}

\* C1 witness: a second alert is displayed alone while the timer of the first,
\* evicted one is still pending.
C1_Witness ==
    /\ Len(created) >= 2
    /\ alerts = {Len(created)}
    /\ 1 \in timers

\* the precondition of C2, as the claim words it
ContactAllValid ==
    /\ Trim(value["name"]) # <<>>
    /\ Trim(value["email"]) # <<>>
    /\ validateEmail(value["email"])
    /\ value["subject"] # <<>>
    /\ Len(Trim(value["message"])) >= 10

\* C2: a contact submit with every field valid creates exactly one alert, of
\* kind success, which is then the only alert displayed, resets the form and
\* leaves input, textarea and select neutral, whatever their state before.
C2_ValidContactSubmit ==
    [][(ContactSubmit /\ ContactAllValid) =>
        /\ created' = Append(created, [type |-> "success", message |-> ContactThanks])
        /\ alerts' = {Len(created')}
        /\ \A f \in ContactFields :
              /\ value'[f] = <<>>
              /\ cls'[f] = {}
              /\ ~errShow'[f]]_vars

\* C2 witness: the form is reset and neutral after a valid submit, and the
\* select, which focus never clears, had been in the error state before.
C2_Witness ==
    /\ page = "contact"
    /\ Len(created) >= 1
    /\ \A f \in ContactFields : value[f] = <<>> /\ cls[f] = {} /\ ~errShow[f]
    /\ errText["subject"] = "Please select a subject"
    /\ errText["message"] = "Message must be at least 10 characters"

\* the fields of the contact form that fail, as the claim words the checks, and
\* the message each gets
ContactFailing ==
    {f \in ContactFields :
        \/ f = "name" /\ Trim(value["name"]) = <<>>
        \/ f = "email" /\ (Trim(value["email"]) = <<>> \/ ~validateEmail(value["email"]))
        \/ f = "subject" /\ value["subject"] = <<>>
        \/ f = "message" /\ Len(Trim(value["message"])) < 10}

ContactMessages(f) ==
    CASE f = "name" -> {"Name is required"}
      [] f = "email" -> {"Email is required", "Please enter a valid email"}
      [] f = "subject" -> {"Please select a subject"}
      [] f = "message" -> {"Message is required", "Message must be at least 10 characters"}

\* C3: a contact submit with a failing field puts exactly the failing fields
\* in the error state, each with one displayed message of its own, marks the
\* others valid, keeps the values (no reset) and shows no alert: no alert is
\* created and the displayed alerts are the ones displayed before.
C3_InvalidContactSubmit ==
    [][(ContactSubmit /\ ContactFailing # {}) =>
        /\ \A f \in ContactFailing :
              /\ cls'[f] = {"error"}
              /\ errShow'[f]
              /\ errText'[f] \in ContactMessages(f)
        /\ \A f \in ContactFields \ ContactFailing :
              /\ cls'[f] = {"success"}
              /\ ~errShow'[f]
        /\ value' = value
        /\ UNCHANGED alertVars]_vars

\* C3 witness: the message is nine characters long after trimming, the other
\* fields are valid, and the message field alone is in the error state.
C3_Witness ==
    /\ page = "contact"
    /\ value["message"] = Blank \o Rep("m", 9)
    /\ cls["message"] = {"error"}
    /\ errShow["message"]
    /\ errText["message"] = "Message must be at least 10 characters"
    /\ \A f \in ContactFields \ {"message"} : cls[f] = {"success"} /\ ~errShow[f]
    /\ created = <<>>

\* C4: no field carries the error and the success marker together, and the
\* message is displayed exactly in the error state.
C4_OneValidationState ==
    \A f \in Fields :
        /\ ~({"error", "success"} \subseteq cls[f])
        /\ errShow[f] <=> "error" \in cls[f]

\* C4 witness: on the signup page the name, left empty at a submit and then
\* corrected, went from error to success at the next submit (its message still
\* in the hidden element); that submit put the e-mail in error, and focus made
\* the password, in success after an earlier valid submit, neutral again.
C4_Witness ==
    /\ page = "signup"
    /\ Len(created) >= 1
    /\ cls["signup-name"] = {"success"}
    /\ errText["signup-name"] = "Name is required"
    /\ ~errShow["signup-name"]
    /\ cls["signup-email"] = {"error"}
    /\ errShow["signup-email"]
    /\ cls["signup-password"] = {}

\* C5: the button shows the close symbol exactly when the links are visible,
\* and a click on a nav link or outside the navigation leaves the links hidden
\* and the open symbol on the button.
C5_MenuGlyph ==
    /\ [](glyph = CloseSymbol <=> navActive)
    /\ [][(NavLinkClick \/ OutsideClick) => (~navActive' /\ glyph' = OpenSymbol)]_vars

\* C5 witness: the menu is open, the state a link click closes.
C5_Witness ==
    /\ navActive
    /\ glyph = CloseSymbol

\* C6 as stated: every settled data-copy click made in a secure context has
\* shown a success toast and has not run the fallback.
C6_Original ==
    \A i \in 1..Len(copies) :
        (copies[i].target = "data" /\ copies[i].write \in {"fulfilled", "rejected"})
        => (copies[i].toast = "success" /\ copies[i].fallbacks = 0)

\* C6 amended: a data-copy click whose write is fulfilled has shown a success
\* toast and has not run the fallback; one whose write is rejected has run it.
C6_SecureCopy ==
    \A i \in 1..Len(copies) :
        /\ copies[i].write # "none" => secure
        /\ (copies[i].target = "data" /\ copies[i].write = "fulfilled")
           => (copies[i].toast = "success" /\ copies[i].fallbacks = 0
               /\ copies[i].exec = "none")
        /\ (copies[i].target = "data" /\ copies[i].write = "rejected")
           => copies[i].fallbacks > 0

\* C6 witness: a data-copy write was fulfilled in a secure context and its
\* toast is displayed.
C6_Witness ==
    /\ secure
    /\ \E i \in 1..Len(copies) :
          /\ copies[i].target = "data"
          /\ copies[i].write = "fulfilled"
          /\ copies[i].toast = "success"
    /\ alerts # {}

\* C7: a click whose write was rejected, or that found no clipboard API, has
\* run the fallback exactly once; a failed fallback copy (execCommand returned
\* false or threw) has shown the error toast; no textarea is left in the page.
C7_FallbackOutcome ==
    /\ textAreas = 0
    /\ \A i \in 1..Len(copies) :
          /\ copies[i].write \in {"rejected", "none"} => copies[i].fallbacks = 1
          /\ copies[i].exec \in {"false", "throws"} => copies[i].toast = "error"

\* C8 as stated: a signup submit with a password shorter than 8 rejects the
\* password field with the length message, the empty and the blank password
\* included.
C8_Original ==
    [][(SignupSubmit /\ Len(value["signup-password"]) < 8) =>
        /\ cls'["signup-password"] = {"error"}
        /\ errShow'["signup-password"]
        /\ errText'["signup-password"] = "Password must be at least 8 characters"]_vars

\* C8 amended: a signup submit with a password shorter than 8 rejects the
\* password field and shows no alert; the message is the length message when
\* the password has a character that is not white space, and "Password is
\* required" when it is empty or white space only.
C8_ShortPassword ==
    [][(SignupSubmit /\ Len(value["signup-password"]) < 8) =>
        /\ cls'["signup-password"] = {"error"}
        /\ errShow'["signup-password"]
        /\ errText'["signup-password"] =
              IF Trim(value["signup-password"]) = <<>>
              THEN "Password is required"
              ELSE "Password must be at least 8 characters"
        /\ value' = value
        /\ UNCHANGED alertVars]_vars

\* C8 witness: a password of seven characters, not blank, was submitted and
\* its field carries the length message.
C8_Witness ==
    /\ page = "signup"
    /\ Len(value["signup-password"]) = 7
    /\ Trim(value["signup-password"]) # <<>>
    /\ cls["signup-password"] = {"error"}
    /\ errText["signup-password"] = "Password must be at least 8 characters"

\* s has no "@", or no "." after an "@"
LacksAtOrDot(s) == ~\E i \in 1..Len(s) : \E j \in 1..Len(s) : i < j /\ s[i] = "@" /\ s[j] = "."

\* C9: validateEmail rejects every e-mail without an "@" or without a "."
\* after the "@", and a submit of any of the three forms with such an e-mail
\* puts the e-mail field in the error state, with its message displayed, and
\* shows no alert.
C9_EmailRejected ==
    /\ [](page \in {"contact", "login", "signup"} =>
            (LacksAtOrDot(value[EmailField(page)])
                => ~validateEmail(value[EmailField(page)])))
    /\ [][((ContactSubmit \/ LoginSubmit \/ SignupSubmit)
            /\ LacksAtOrDot(value[EmailField(page)])) =>
            /\ cls'[EmailField(page)] = {"error"}
            /\ errShow'[EmailField(page)]
            /\ errText'[EmailField(page)] \in {"Email is required", "Please enter a valid email"}
            /\ UNCHANGED alertVars]_vars

\* C9 witness: an e-mail with an "@" and no "." after it was submitted in the
\* login form and its field is in the error state.
C9_Witness ==
    /\ page = "login"
    /\ \E i \in 1..Len(value["login-email"]) : value["login-email"][i] = "@"
    /\ \E i \in 1..Len(value["login-email"]) : value["login-email"][i] = "."
    /\ LacksAtOrDot(value["login-email"])
    /\ cls["login-email"] = {"error"}
    /\ errText["login-email"] = "Please enter a valid email"
    /\ cls["login-password"] = {"success"}
    /\ created = <<>>

\* the checks of C10 that password s satisfies
ChecksMet(s) ==
    {n \in 1..4 :
        \/ n = 1 /\ Len(s) >= 8
        \/ n = 2 /\ (\E i \in 1..Len(s) : s[i] \in {"a"}) /\ (\E i \in 1..Len(s) : s[i] \in {"A"})
        \/ n = 3 /\ (\E i \in 1..Len(s) : s[i] \in {"1"})
        \/ n = 4 /\ (\E i \in 1..Len(s) : s[i] \in {"!"})}

\* the character classes of s
Classes(s) == {s[i] : i \in 1..Len(s)}

BarRank(bar) ==
    IF "strength-strong" \in bar THEN 3
    ELSE IF "strength-medium" \in bar THEN 2
    ELSE IF "strength-weak" \in bar THEN 1
    ELSE 0

\* C10: after an input event on the signup password, an empty password hides
\* the indicator; any other shows it with exactly one class, weak for 0-1
\* checks met, medium for 2-3, strong for 4, the score being the number of
\* checks met. Overwriting a character of a password of length >= 8 so that
\* its character classes grow never lowers the score nor the class.
C10_Strength ==
    [][Input("signup-password", value'["signup-password"]) =>
        LET old == value["signup-password"]
            new == value'["signup-password"]
            n == Cardinality(ChecksMet(new))
        IN /\ strength(new) = n
           /\ IF new = <<>>
              THEN ~strengthShow'
              ELSE /\ strengthShow'
                   /\ strengthBar' = {IF n <= 1 THEN "strength-weak"
                                      ELSE IF n <= 3 THEN "strength-medium"
                                      ELSE "strength-strong"}
           /\ (Len(old) >= 8 /\ Len(new) = Len(old) /\ Classes(old) \subseteq Classes(new))
              => (strength(new) >= strength(old)
                  /\ BarRank(strengthBar') >= BarRank(strengthBar))]_vars

\* C10 witness: the third example of the specification is in the field and
\* the indicator is shown, strong.
C10_Witness ==
    /\ value["signup-password"] = <<"A">> \o Rep("a", 7) \o <<"1", "!">>
    /\ strengthShow
    /\ strengthBar = {"strength-strong"}

\* C11: once every pending 2000 ms timer of the key item's Copy button has
\* fired, the button reads "Copy" again, however the successful clicks were
\* spaced.
C11_LabelRestored == labelTimers = <<>> => btnLabel = "Copy"

\* C12: an alert leaves the page only when its own 5000 ms timer fires, when
\* its own close button is clicked, or when a later showAlert creates the
\* alert that replaces it; a step that fires the timer of another alert, or
\* closes another alert, leaves it displayed.
C12_OwnTimerOnly ==
    [][\A id \in alerts \ alerts' :
          \/ id \in timers /\ timers' = timers \ {id} /\ created' = created
          \/ timers' = timers /\ created' = created /\ alerts' = alerts \ {id}
          \/ Len(created') > Len(created) /\ alerts' = {Len(created')}]_vars

\* C12 witness: the second alert is displayed with its timer pending, and the
\* timer of the first alert, which it evicted, has fired.
C12_Witness ==
    /\ Len(created) >= 2
    /\ alerts = {2}
    /\ timers = {2}

====
